---- MODULE Spec2Model ----
(***************************************************************************)
(* Model of src/bot/tracker.py: the build (main) that derives baselines,   *)
(* returns, the ranked leaderboard and the fixed-order watchlist, and the  *)
(* page script that keeps the published rows live from quotes.             *)
(*                                                                         *)
(* Numbers are exact rationals [n, d] (d > 0); d = 0 encodes the two       *)
(* non-finite outcomes: NaN (the undefined sentinel) and DivFault (the     *)
(* result of dividing by zero: ZeroDivisionError in Python).               *)
(***************************************************************************)
EXTENDS Integers, Sequences, FiniteSets, TLC

VARIABLES
    pc,             \* position of main(): "start", "rows", "ranked", "projected", "published", "error"
    universe,       \* main: stocks + etfs, de-duplicated (line 486)
    MIKE_TICKERS,   \* the watchlist symbol list (line 26)
    LOOKBACKS,      \* module configuration (line 19)
    RANK_HORIZON,   \* module configuration (line 20)
    TOP_N,          \* module configuration (line 21)
    histories,      \* what the history provider returns per symbol (raw observations)
    df,             \* main: the computed rows (line 513)
    df_top,         \* main: the leaderboard frame (line 521)
    df_mike,        \* main: the watchlist frame (line 527)
    REFRESH_SYMBOLS,\* symbols the page refreshes (lines 555, 278)
    topTable,       \* DOM: rows of the leaderboard table (lines 222-237)
    mikeTable,      \* DOM: rows of the watchlist table (lines 253-268)
    banner,         \* DOM: index badges and market status (lines 186-209)
    market_summary, \* DOM: #market_summary, as the tick that composed it
    last_updated,   \* DOM: #last_updated, as the tick that set it
    size,           \* refreshTables: symbols per quote request (line 445)
    ticks,          \* number of doRefresh calls started
    idxPc,          \* per doRefresh call: refreshIndicesAndStatus "idle", "fetch", "done"
    tblPc,          \* per doRefresh call: refreshTables "idle", "fetch", "done"
    tblI,           \* per doRefresh call: loop index i of refreshTables
    arrived,        \* history: per symbol, the call whose quote resolved last
    rendered,       \* history: per symbol, the call whose quote was rendered last
    newest,         \* history: per symbol, the latest call whose quote was ever rendered
    stale           \* history: the symbols whose latest quote request hit the catch (line 459)

buildVars == <<pc, universe, MIKE_TICKERS, LOOKBACKS, RANK_HORIZON, TOP_N, histories,
               df, df_top, df_mike, REFRESH_SYMBOLS>>

domVars == <<topTable, mikeTable, banner, market_summary, last_updated>>

liveVars == <<size, ticks, idxPc, tblPc, tblI, arrived, rendered, newest, stale>>

vars == <<buildVars, domVars, liveVars>>

----------------------------------------------------------------------------
(* Bounds *)

MaxLen == 3     \* longest raw history
MaxK == 3       \* largest month lookback
MaxTopN == 2    \* largest leaderboard size
MaxTicks == 2   \* doRefresh calls in a page lifetime

Closes == {0, 1, 2}
Years == {2024, 2025}
RankHorizons == {"day", "month", "ytd"}

\* lexicographic order of the ticker strings used
SymOrder == <<"A", "B", "C", "D">>

----------------------------------------------------------------------------
(* Scalar floats *)

Abs(i) == IF i < 0 THEN -i ELSE i

RECURSIVE GCD(_, _)
GCD(a, b) == IF b = 0 THEN a ELSE GCD(b, a % b)

NaN == [n |-> 0, d |-> 0]
DivFault == [n |-> 1, d |-> 0]
Num(i) == [n |-> i, d |-> 1]
Finite(x) == x.d # 0

Norm(n, d) ==
    LET g == GCD(Abs(n), Abs(d))
        s == IF d < 0 THEN -1 ELSE 1
    IN  [n |-> (s * n) \div g, d |-> (s * d) \div g]

\* a non-finite operand propagates
Sub(a, b) ==
    IF ~Finite(a) THEN a ELSE IF ~Finite(b) THEN b
    ELSE Norm(a.n * b.d - b.n * a.d, a.d * b.d)

Mul(a, b) ==
    IF ~Finite(a) THEN a ELSE IF ~Finite(b) THEN b
    ELSE Norm(a.n * b.n, a.d * b.d)

Div(a, b) ==
    IF ~Finite(a) THEN a ELSE IF ~Finite(b) THEN b
    ELSE IF b.n = 0 THEN DivFault
    ELSE Norm(a.n * b.d, a.d * b.n)

\* comparisons with a non-finite operand are false
Geq(a, b) == Finite(a) /\ Finite(b) /\ a.n * b.d >= b.n * a.d
Lt(a, b) == Finite(a) /\ Finite(b) /\ a.n * b.d < b.n * a.d

isna(x) == x = NaN
notna(x) == ~isna(x)

----------------------------------------------------------------------------
(* Baseline selection *)

dropna(s) == SelectSeq(s, LAMBDA o : notna(o.close))

price_last(s) ==
    LET c == dropna(s)
    IN  IF Len(c) = 0 THEN NaN ELSE c[Len(c)].close

prev_close(s) ==
    LET c == dropna(s)
    IN  IF Len(c) < 2 THEN NaN ELSE c[Len(c) - 1].close

month_base_off(s) ==
    LET c == dropna(s)
    IN  IF Len(c) <= LOOKBACKS["month"] THEN NaN
        ELSE c[Len(c) - LOOKBACKS["month"] + 1].close

month_base(s) ==
    LET c == dropna(s)
    IN  IF Len(c) <= LOOKBACKS["month"] THEN NaN
        ELSE c[Len(c) - LOOKBACKS["month"]].close

ytd_base_first(s) ==
    LET c == dropna(s)
    IN  IF Len(c) = 0 THEN NaN ELSE c[1].close

ytd_base(s) ==
    LET c == dropna(s)
    IN  IF Len(c) = 0 THEN NaN
        ELSE LET yr == c[Len(c)].year
                 this_year == SelectSeq(c, LAMBDA o : o.year = yr)
             IN  IF Len(this_year) = 0 THEN NaN ELSE this_year[1].close

----------------------------------------------------------------------------
(* Return calculation: main, lines 503-506 *)

pct_return(last_price, base) ==
    IF notna(last_price) /\ notna(base) /\ base # Num(0)
    THEN Sub(Div(last_price, base), Num(1))
    ELSE NaN

day_abs_of(last_price, prev) ==
    IF notna(last_price) /\ notna(prev) THEN Sub(last_price, prev) ELSE NaN

compute_row(t, s) ==
    LET last_price == price_last(s)
        prev == prev_close(s)
        mbase == month_base(s)
        ybase == ytd_base(s)
    IN  [Ticker |-> t, Price |-> last_price,
         PrevClose |-> prev, MonthBase |-> mbase, YtdBase |-> ybase,
         Day |-> pct_return(last_price, prev),
         DayAbs |-> day_abs_of(last_price, prev),
         Month |-> pct_return(last_price, mbase),
         YTD |-> pct_return(last_price, ybase)]

----------------------------------------------------------------------------
(* Sequence helpers *)

Range(s) == {s[i] : i \in 1..Len(s)}

Min(a, b) == IF a <= b THEN a ELSE b

\* list(dict.fromkeys(s)): first occurrences, in order
RECURSIVE fromkeys(_)
fromkeys(s) ==
    IF Len(s) = 0 THEN <<>>
    ELSE LET init == fromkeys(SubSeq(s, 1, Len(s) - 1))
             x == s[Len(s)]
         IN  IF x \in Range(init) THEN init ELSE Append(init, x)

\* every arrangement of the elements of s
Perms(s) ==
    LET n == Len(s)
        bij == {f \in [1..n -> 1..n] : \A i, j \in 1..n : i # j => f[i] # f[j]}
    IN  {[i \in 1..n |-> s[f[i]]] : f \in bij}

head(s, n) == SubSeq(s, 1, Min(n, Len(s)))

\* position of the last occurrence, as a dict comprehension keeps it
LastIndexOf(s, x) ==
    CHOOSE i \in 1..Len(s) : s[i] = x /\ \A j \in (i + 1)..Len(s) : s[j] # x

----------------------------------------------------------------------------
(* main: histories and rows, lines 486-513 *)

all_symbols == fromkeys(universe \o MIKE_TICKERS)

\* fetch_histories: dict[ticker] -> cleaned closes, tickers without data skipped
fetch_histories(tickers) ==
    LET have == {t \in Range(tickers) : Len(dropna(histories[t])) # 0}
    IN  [t \in have |-> dropna(histories[t])]

RECURSIVE rows_loop(_, _)
rows_loop(tickers, hist) ==
    IF Len(tickers) = 0 THEN <<>>
    ELSE LET init == rows_loop(SubSeq(tickers, 1, Len(tickers) - 1), hist)
             t == tickers[Len(tickers)]
         IN  IF t \notin DOMAIN hist \/ Len(dropna(hist[t])) = 0 THEN init
             ELSE Append(init, compute_row(t, hist[t]))

RowFaults(r) ==
    \E f \in {"Day", "DayAbs", "Month", "YTD"} : r[f] = DivFault

----------------------------------------------------------------------------
(* main: leaderboard and watchlist, lines 519-527 *)

rank_col ==
    IF RANK_HORIZON = "day" THEN "Day"
    ELSE IF RANK_HORIZON = "ytd" THEN "YTD"
    ELSE "Month"

\* sort_values(by=col, ascending=False) with the default, unstable sort: any
\* arrangement whose values do not increase
sort_values_desc(frame, col) ==
    {p \in Perms(frame) : \A i, j \in 1..Len(p) : i < j => Geq(p[i][col], p[j][col])}

leaderboard_unfiltered(frame, col, n) ==
    {head(p, n) : p \in
        {q \in Perms(frame) : \A i, j \in 1..Len(q) : i < j =>
            (isna(q[j][col]) \/ Geq(q[i][col], q[j][col]))}}

leaderboard(frame, col, n) ==
    LET defined == SelectSeq(frame, LAMBDA r : ~isna(r[col]))
    IN  {head(p, n) : p \in sort_values_desc(defined, col)}

watchlist_unsorted(frame, tickers) ==
    SelectSeq(frame, LAMBDA r : r.Ticker \in Range(tickers))

watchlist(frame, tickers) ==
    LET order_map == [t \in Range(tickers) |-> LastIndexOf(tickers, t)]
        sub == SelectSeq(frame, LAMBDA r : r.Ticker \in DOMAIN order_map)
    IN  CHOOSE p \in Perms(sub) : \A i, j \in 1..Len(p) : i < j =>
            order_map[p[i].Ticker] <= order_map[p[j].Ticker]

----------------------------------------------------------------------------
(* Formatting: a formatted number is its sign text and its magnitude in     *)
(* hundredths (of a unit, or of a percent); "dash" is the placeholder       *)

Dash == [sign |-> "dash", mag |-> 0]

\* |x| * scale, rounded to an integer: ties to even (Python's format)
RoundHalfEven(x, scale) ==
    LET a == Abs(x.n) * scale
        f == a \div x.d
        r == a % x.d
    IN  IF 2 * r < x.d THEN f
        ELSE IF 2 * r > x.d THEN f + 1
        ELSE IF f % 2 = 0 THEN f ELSE f + 1

\* ties away from zero (Number.prototype.toFixed)
RoundHalfUp(x, scale) ==
    LET a == Abs(x.n) * scale
        f == a \div x.d
        r == a % x.d
    IN  IF 2 * r < x.d THEN f ELSE f + 1

\* f"{x:+.2%}", f"{x:,.2f}", f"{x:+,.2f}" (lines 536-540)
fmt_pct(x) ==
    IF isna(x) THEN Dash
    ELSE [sign |-> IF x.n < 0 THEN "-" ELSE "+", mag |-> RoundHalfEven(x, 10000)]

fmt_price(x) ==
    IF isna(x) THEN Dash
    ELSE [sign |-> IF x.n < 0 THEN "-" ELSE "", mag |-> RoundHalfEven(x, 100)]

fmt_abs(x) ==
    IF isna(x) THEN Dash
    ELSE [sign |-> IF x.n < 0 THEN "-" ELSE "+", mag |-> RoundHalfEven(x, 100)]

\* an attribute value: "" for NaN, else the float's repr
Attr(x) == IF isna(x) THEN [empty |-> TRUE, v |-> Num(0)] ELSE [empty |-> FALSE, v |-> x]

val_or_zero(x) == IF isna(x) THEN Num(0) ELSE x

\* rows_for_html, lines 530-549
html_row(r) ==
    [Ticker |-> r.Ticker,
     Price |-> fmt_price(r.Price),
     Day |-> fmt_pct(r.Day),
     DayAbs |-> fmt_abs(r.DayAbs),
     Month |-> fmt_pct(r.Month),
     YTD |-> fmt_pct(r.YTD),
     Day_val |-> val_or_zero(r.Day),
     DayAbs_val |-> val_or_zero(r.DayAbs),
     Month_val |-> val_or_zero(r.Month),
     YTD_val |-> val_or_zero(r.YTD),
     PrevCloseRaw |-> Attr(r.PrevClose),
     MonthBaseRaw |-> Attr(r.MonthBase),
     YtdBaseRaw |-> Attr(r.YtdBase)]

rows_for_html(df_) == [i \in 1..Len(df_) |-> html_row(df_[i])]

\* sorted(set(top) | set(mike)), line 555
sorted_symbols(S) ==
    SelectSeq(SymOrder, LAMBDA t : t \in S)

refresh_symbols(top, mike) ==
    sorted_symbols({top[i].Ticker : i \in 1..Len(top)}
                   \cup {mike[i].Ticker : i \in 1..Len(mike)})

----------------------------------------------------------------------------
(* render_html: the rows of both tables and the banner as first displayed *)

gain_loss(v) == IF Geq(v, Num(0)) THEN "gain" ELSE "loss"

\* one <tr>: the data-* attributes and the five spans (lines 223-236, 254-267)
render_row(r) ==
    [symbol |-> r.Ticker,
     prev |-> r.PrevCloseRaw, mbase |-> r.MonthBaseRaw, ybase |-> r.YtdBaseRaw,
     p |-> [txt |-> r.Price, cls |-> ""],
     da |-> [txt |-> r.DayAbs, cls |-> gain_loss(r.DayAbs_val)],
     dp |-> [txt |-> r.Day, cls |-> gain_loss(r.Day_val)],
     m |-> [txt |-> r.Month, cls |-> gain_loss(r.Month_val)],
     y |-> [txt |-> r.YTD, cls |-> gain_loss(r.YTD_val)]]

render_table(html_rows) == [i \in 1..Len(html_rows) |-> render_row(html_rows[i])]

IndexSymbols == {"^DJI", "^GSPC"}

\* the banner as built: index badges seeded at build time, status "Market ..."
banner_built == [idx |-> [s \in IndexSymbols |-> "built"], status |-> "Market ..."]

----------------------------------------------------------------------------
(* Inputs of a build *)

Ob(y, c) == [year |-> y, close |-> c]

Obs == {Ob(y, c) : y \in Years, c \in {Num(k) : k \in Closes} \cup {NaN}}

SeqsUpTo(S, n) == UNION {[1..k -> S] : k \in 0..n}

\* the provider returns observations in date order
Histories ==
    {h \in SeqsUpTo(Obs, MaxLen) : \A i, j \in 1..Len(h) : i < j => h[i].year <= h[j].year}

\* the worked example: closes 100, 102, 99, 105 within one year
ExampleHistory ==
    <<Ob(2025, Num(100)), Ob(2025, Num(102)), Ob(2025, Num(99)), Ob(2025, Num(105))>>

\* a short list of histories for builds with several instruments
Sample ==
    { <<>>,
      <<Ob(2025, Num(2))>>,
      <<Ob(2024, Num(1)), Ob(2025, Num(1)), Ob(2025, Num(2))>>,
      <<Ob(2025, Num(2)), Ob(2025, NaN), Ob(2025, Num(1))>>,
      <<Ob(2024, Num(2)), Ob(2025, Num(1)), Ob(2025, Num(2))>>,
      ExampleHistory }

MikeLists == { <<"C", "A">>, <<"D", "B", "A">> }

\* one instrument with any history, or several with histories of the short list
BuildInputs ==
    {[universe |-> <<"A">>, mike |-> <<"A">>, histories |-> [t \in {"A"} |-> h]] :
        h \in Histories}
    \cup
    UNION {{[universe |-> <<"A", "B", "C">>, mike |-> ml, histories |-> hs] :
                hs \in [Range(<<"A", "B", "C">> \o ml) -> Sample]} : ml \in MikeLists}

NoPage ==
    /\ topTable = <<>>
    /\ mikeTable = <<>>
    /\ banner = banner_built
    /\ market_summary = 0
    /\ last_updated = 0
    /\ size = 1
    /\ ticks = 0
    /\ idxPc = <<>>
    /\ tblPc = <<>>
    /\ tblI = <<>>
    /\ arrived = <<>>
    /\ rendered = <<>>
    /\ newest = <<>>
    /\ stale = {}

Init ==
    /\ pc = "start"
    /\ \E inp \in BuildInputs :
        /\ universe = inp.universe
        /\ MIKE_TICKERS = inp.mike
        /\ histories = inp.histories
    /\ LOOKBACKS \in {[day |-> 1, month |-> k] : k \in 1..MaxK}
    /\ RANK_HORIZON \in RankHorizons
    /\ TOP_N \in 1..MaxTopN
    /\ df = <<>>
    /\ df_top = <<>>
    /\ df_mike = <<>>
    /\ REFRESH_SYMBOLS = <<>>
    /\ NoPage

----------------------------------------------------------------------------
(* main *)

\* lines 490-517: the rows; an empty frame has no "Ticker" column and a
\* division fault raises: both end main with exit status 1 (lines 588-592)
ComputeRows ==
    /\ pc = "start"
    /\ LET rows == rows_loop(all_symbols, fetch_histories(all_symbols))
       IN  IF Len(rows) = 0 \/ \E i \in 1..Len(rows) : RowFaults(rows[i])
           THEN pc' = "error" /\ df' = df
           ELSE pc' = "rows" /\ df' = rows
    /\ UNCHANGED <<universe, MIKE_TICKERS, LOOKBACKS, RANK_HORIZON, TOP_N, histories,
                   df_top, df_mike, REFRESH_SYMBOLS, domVars, liveVars>>

\* lines 519-521
Rank ==
    /\ pc = "rows"
    /\ df_top' \in leaderboard(df, rank_col, TOP_N)
    /\ pc' = "ranked"
    /\ UNCHANGED <<universe, MIKE_TICKERS, LOOKBACKS, RANK_HORIZON, TOP_N, histories,
                   df, df_mike, REFRESH_SYMBOLS, domVars, liveVars>>

\* lines 523-527
Project ==
    /\ pc = "ranked"
    /\ df_mike' = watchlist(df, MIKE_TICKERS)
    /\ pc' = "projected"
    /\ UNCHANGED <<universe, MIKE_TICKERS, LOOKBACKS, RANK_HORIZON, TOP_N, histories,
                   df, df_top, REFRESH_SYMBOLS, domVars, liveVars>>

\* lines 551-582: the page is rendered and written
Publish ==
    /\ pc = "projected"
    /\ REFRESH_SYMBOLS' = refresh_symbols(df_top, df_mike)
    /\ topTable' = render_table(rows_for_html(df_top))
    /\ mikeTable' = render_table(rows_for_html(df_mike))
    /\ pc' = "published"
    /\ UNCHANGED <<universe, MIKE_TICKERS, LOOKBACKS, RANK_HORIZON, TOP_N, histories,
                   df, df_top, df_mike, banner, market_summary, last_updated, liveVars>>

Next == ComputeRows \/ Rank \/ Project \/ Publish

Spec == Init /\ [][Next]_vars

----------------------------------------------------------------------------
(* The page script: numbers and formatting, lines 280-282, 316-319 *)

\* a field the quote does not carry (null or undefined)
Null == [n |-> 2, d |-> 0]

parseFloat(a) == IF a.empty THEN NaN ELSE a.v

isNaN(x) == x = NaN

\* x ?? NaN
orNaN(x) == IF x = Null THEN NaN ELSE x

\* (x ?? 0).toFixed(2)
fmtPrice(x) == [sign |-> IF x.n < 0 THEN "-" ELSE "", mag |-> RoundHalfUp(x, 100)]

\* (x >= 0 ? "+" : "") + x.toFixed(2) + "%", x in percent
fmtPct(x) == [sign |-> IF x.n < 0 THEN "-" ELSE "+", mag |-> RoundHalfUp(x, 100)]

\* (v >= 0 ? "+" : "") + Math.abs(v).toFixed(2)
fmtAbs(v) == [sign |-> IF v.n < 0 THEN "" ELSE "+", mag |-> RoundHalfUp(v, 100)]

\* a percentage that forgets to subtract the baseline
pct_ratio(price, base) == Mul(Div(price, base), Num(100))

\* (price/base - 1) * 100.0
pctOf(price, base) == Mul(Sub(Div(price, base), Num(1)), Num(100))

baseline_ok(base, price) == ~isNaN(base) /\ base # Num(0) /\ ~isNaN(price)

\* a variant that takes the day baseline from the row alone
locals_stored_only(row, quote) ==
    LET prev == parseFloat(row.prev)
        mbase == parseFloat(row.mbase)
        ybase == parseFloat(row.ybase)
        price == orNaN(quote.regularMarketPrice)
        byBase == baseline_ok(prev, price)
    IN  [price |-> price,
         prev |-> prev,
         dayAbs |-> IF byBase THEN Sub(price, prev) ELSE quote.regularMarketChange,
         dayPct |-> IF byBase THEN pctOf(price, prev) ELSE quote.regularMarketChangePercent,
         mPct |-> IF baseline_ok(mbase, price) THEN pctOf(price, mbase) ELSE Null,
         yPct |-> IF baseline_ok(ybase, price) THEN pctOf(price, ybase) ELSE Null]

\* the locals of recomputeAndRender(sym, quote) for the row found, lines 316-363
locals(row, quote) ==
    LET prev0 == parseFloat(row.prev)
        mbase == parseFloat(row.mbase)
        ybase == parseFloat(row.ybase)
        price == orNaN(quote.regularMarketPrice)
        prev == IF isNaN(prev0) /\ quote.regularMarketPreviousClose # Null
                THEN quote.regularMarketPreviousClose ELSE prev0
        byBase == baseline_ok(prev, price)
    IN  [price |-> price,
         prev |-> prev,
         dayAbs |-> IF byBase THEN Sub(price, prev) ELSE quote.regularMarketChange,
         dayPct |-> IF byBase THEN pctOf(price, prev) ELSE quote.regularMarketChangePercent,
         mPct |-> IF baseline_ok(mbase, price) THEN pctOf(price, mbase) ELSE Null,
         yPct |-> IF baseline_ok(ybase, price) THEN pctOf(price, ybase) ELSE Null]

pct_cell(x, old) == IF x = Null THEN old ELSE [txt |-> fmtPct(x), cls |-> gain_loss(x)]

\* a variant that keeps the provider's previous close on the row
recompute_row_storing(row, quote) ==
    LET v == locals(row, quote)
    IN  [row EXCEPT
            !.prev = Attr(v.prev),
            !.p = IF isNaN(v.price) THEN @ ELSE [txt |-> fmtPrice(v.price), cls |-> ""],
            !.da = IF v.dayAbs = Null THEN @
                   ELSE [txt |-> fmtAbs(v.dayAbs), cls |-> gain_loss(v.dayAbs)],
            !.dp = pct_cell(v.dayPct, @),
            !.m = pct_cell(v.mPct, @),
            !.y = pct_cell(v.yPct, @)]

\* the row after recomputeAndRender, lines 323-367
recompute_row(row, quote) ==
    LET v == locals(row, quote)
    IN  [row EXCEPT
            !.p = IF isNaN(v.price) THEN @ ELSE [txt |-> fmtPrice(v.price), cls |-> ""],
            !.da = IF v.dayAbs = Null THEN @
                   ELSE [txt |-> fmtAbs(v.dayAbs), cls |-> gain_loss(v.dayAbs)],
            !.dp = pct_cell(v.dayPct, @),
            !.m = pct_cell(v.mPct, @),
            !.y = pct_cell(v.yPct, @)]

\* document.querySelector / getElementById: the first match in document order
InTable(table, sym) == \E i \in 1..Len(table) : table[i].symbol = sym
RowIn(table, sym) == CHOOSE i \in 1..Len(table) : table[i].symbol = sym

\* recomputeAndRender(sym, quote) on the two tables, lines 311-368
recomputeAndRender(tables, sym, quote) ==
    IF InTable(tables.top, sym)
    THEN [tables EXCEPT !.top[RowIn(tables.top, sym)] = recompute_row(@, quote)]
    ELSE IF InTable(tables.mike, sym)
    THEN [tables EXCEPT !.mike[RowIn(tables.mike, sym)] = recompute_row(@, quote)]
    ELSE tables

FirstRow(tables, sym) ==
    IF InTable(tables.top, sym) THEN tables.top[RowIn(tables.top, sym)]
    ELSE tables.mike[RowIn(tables.mike, sym)]

\* for (const it of res) recomputeAndRender(it.symbol, it), lines 454-458
RECURSIVE render_all(_, _, _)
render_all(tables, syms, res) ==
    IF Len(syms) = 0 THEN tables
    ELSE LET t == syms[1]
             next == IF t \in DOMAIN res THEN recomputeAndRender(tables, t, res[t])
                     ELSE tables
         IN  render_all(next, SubSeq(syms, 2, Len(syms)), res)

----------------------------------------------------------------------------
(* What the quote provider may answer *)

Quote(p, pc_, chg, pct) ==
    [regularMarketPrice |-> p, regularMarketPreviousClose |-> pc_,
     regularMarketChange |-> chg, regularMarketChangePercent |-> pct]

Quotes ==
    { Quote(Num(1), Null, Null, Null),
      Quote(Num(2), Num(1), Num(1), Num(100)),
      Quote(Null, Null, Num(-1), Num(-50)),
      Quote(Num(2), Num(1), Null, Null) }

\* every answer to a request for group: some of its symbols, each with a quote
Responses(group) == UNION {[S -> Quotes] : S \in SUBSET Range(group)}

\* the market states the index quotes carry, and the colour class their change gives
MarketStates == {"REGULAR"}
IndexChanges == {"gain"}

\* the index symbols an answer carries: none of them, or both
IndexAnswers == {{}, IndexSymbols}

\* setMarketStatusFromState, lines 293-299
status_label(state) ==
    IF state = "REGULAR" THEN "Market Open"
    ELSE IF state = "PRE" THEN "Pre-Market"
    ELSE IF state = "POST" THEN "After Hours"
    ELSE "Market Closed"

\* setMarketStatusFallback, lines 300-309: decided by the clock, here one
\* outside market hours
FallbackStates == {"CLOSED"}

----------------------------------------------------------------------------
(* The page script: the refresh loop, lines 394-472 *)

Calls == 1..ticks

\* the batch sizes followed: one symbol per request, or two
BatchSizes == {1, 2}

nSymbols == Len(REFRESH_SYMBOLS)

\* REFRESH_SYMBOLS.slice(i, i + size)
group_at(i) == SubSeq(REFRESH_SYMBOLS, i + 1, Min(i + size, nSymbols))

loop_state(i) == IF i < nSymbols THEN "fetch" ELSE "done"

\* doRefresh called by the page load or by the interval timer (lines 471-472):
\* both fetches start (line 465); refreshTables returns at once without
\* symbols (line 443)
doRefresh ==
    /\ pc = "published"
    /\ ticks < MaxTicks
    /\ ticks' = ticks + 1
    /\ idxPc' = Append(idxPc, "fetch")
    /\ tblPc' = Append(tblPc, loop_state(0))
    /\ tblI' = Append(tblI, 0)
    /\ UNCHANGED <<buildVars, domVars, size, arrived, rendered, newest, stale>>

table_fetch_after_index(g) == tblPc[g] = "fetch" /\ idxPc[g] = "done"

\* refreshTables of call g is waiting for its fetch (line 451)
table_fetch_pending(g) == tblPc[g] = "fetch"

\* refreshIndicesAndStatus of call g is waiting for its fetch (line 398)
index_fetch_pending(g) == idxPc[g] = "fetch"

apply_guard_generation(g, t) == g >= rendered[t]

\* whether the quote of call g for symbol t is rendered: always (line 457)
apply_guard(g, t) == TRUE

loop_abort(i) == nSymbols

\* the loop index after a batch, served or not (line 446)
loop_next(i) == i + size

Max(a, b) == IF a >= b THEN a ELSE b

\* Promise.all settles in the same turn as the later of the two functions
\* returns: composeSummary and setUpdatedNow (lines 465-467)
Settles(g, idx, tbl) ==
    IF idx = "done" /\ tbl = "done"
    THEN market_summary' = g /\ last_updated' = g
    ELSE UNCHANGED <<market_summary, last_updated>>

\* a batch of call g is answered: every quote of the answer is rendered, and
\* the loop asks for the next batch or returns (lines 451-458)
TablesResolve(g) ==
    /\ table_fetch_pending(g)
    /\ \E res \in Responses(group_at(tblI[g])) :
        LET shown == {t \in DOMAIN res : apply_guard(g, t)}
            use == [t \in shown |-> res[t]]
            before == [top |-> topTable, mike |-> mikeTable]
            after == render_all(before, group_at(tblI[g]), use)
        IN  /\ topTable' = after.top
            /\ mikeTable' = after.mike
            /\ arrived' = [t \in DOMAIN arrived |-> IF t \in DOMAIN res THEN g ELSE arrived[t]]
            /\ rendered' = [t \in DOMAIN rendered |-> IF t \in shown THEN g ELSE rendered[t]]
            /\ newest' = [t \in DOMAIN newest |->
                             IF t \in shown THEN Max(g, newest[t]) ELSE newest[t]]
            /\ stale' = stale \ Range(group_at(tblI[g]))
    /\ tblI' = [tblI EXCEPT ![g] = loop_next(@)]
    /\ tblPc' = [tblPc EXCEPT ![g] = loop_state(loop_next(tblI[g]))]
    /\ Settles(g, idxPc[g], loop_state(loop_next(tblI[g])))
    /\ UNCHANGED <<buildVars, banner, size, ticks, idxPc>>

\* the fetch of a batch of call g fails: logged, the loop goes on (line 459)
TablesFail(g) ==
    /\ table_fetch_pending(g)
    /\ stale' = stale \cup Range(group_at(tblI[g]))
    /\ tblI' = [tblI EXCEPT ![g] = loop_next(@)]
    /\ tblPc' = [tblPc EXCEPT ![g] = loop_state(loop_next(tblI[g]))]
    /\ Settles(g, idxPc[g], loop_state(loop_next(tblI[g])))
    /\ UNCHANGED <<buildVars, topTable, mikeTable, banner, size, ticks, idxPc,
                   arrived, rendered, newest>>

\* the index request of call g is answered (lines 398-432): each index the
\* answer carries gets its badge rewritten, coloured by its change; the status
\* comes from the market state when one is given, else from the clock
IndicesResolve(g) ==
    /\ index_fetch_pending(g)
    /\ \E present \in IndexAnswers, cls \in IndexChanges,
          state \in MarketStates \cup {"none"}, clock \in FallbackStates :
        banner' = [idx |-> [s \in IndexSymbols |->
                                IF s \in present THEN cls ELSE banner.idx[s]],
                   status |-> IF state # "none" /\ present # {}
                              THEN status_label(state) ELSE status_label(clock)]
    /\ idxPc' = [idxPc EXCEPT ![g] = "done"]
    /\ Settles(g, "done", tblPc[g])
    /\ UNCHANGED <<buildVars, topTable, mikeTable, size, ticks, tblPc, tblI,
                   arrived, rendered, newest, stale>>

\* the index request of call g fails (lines 434-437)
IndicesFail(g) ==
    /\ index_fetch_pending(g)
    /\ \E clock \in FallbackStates :
        banner' = [banner EXCEPT !.status = status_label(clock)]
    /\ idxPc' = [idxPc EXCEPT ![g] = "done"]
    /\ Settles(g, "done", tblPc[g])
    /\ UNCHANGED <<buildVars, topTable, mikeTable, size, ticks, tblPc, tblI,
                   arrived, rendered, newest, stale>>

NextLive ==
    \/ doRefresh
    \/ \E g \in Calls : TablesResolve(g)
    \/ \E g \in Calls : TablesFail(g)
    \/ \E g \in Calls : IndicesResolve(g)
    \/ \E g \in Calls : IndicesFail(g)

\* the builds whose pages are followed through their refreshes
LiveInputs ==
    { [universe |-> <<"A", "B">>, mike |-> <<"C", "A">>,
       histories |-> ("A" :> <<Ob(2024, Num(1)), Ob(2025, Num(2)), Ob(2025, Num(1))>>
                      @@ "B" :> <<Ob(2025, Num(1)), Ob(2025, Num(2))>>
                      @@ "C" :> <<Ob(2025, Num(2))>>),
       month |-> 2, horizon |-> "month", top |-> 1] }

NoCalls(syms) ==
    /\ ticks = 0
    /\ idxPc = <<>>
    /\ tblPc = <<>>
    /\ tblI = <<>>
    /\ stale = {}
    /\ arrived = [t \in syms |-> 0]
    /\ rendered = [t \in syms |-> 0]
    /\ newest = [t \in syms |-> 0]

\* a page as main published it, just loaded
InitLive ==
    /\ pc = "published"
    /\ \E inp \in LiveInputs :
        /\ universe = inp.universe
        /\ MIKE_TICKERS = inp.mike
        /\ histories = inp.histories
        /\ LOOKBACKS = [day |-> 1, month |-> inp.month]
        /\ RANK_HORIZON = inp.horizon
        /\ TOP_N = inp.top
    /\ df = rows_loop(all_symbols, fetch_histories(all_symbols))
    /\ df_top \in leaderboard(df, rank_col, TOP_N)
    /\ df_mike = watchlist(df, MIKE_TICKERS)
    /\ REFRESH_SYMBOLS = refresh_symbols(df_top, df_mike)
    /\ topTable = render_table(rows_for_html(df_top))
    /\ mikeTable = render_table(rows_for_html(df_mike))
    /\ banner = banner_built
    /\ market_summary = 0
    /\ last_updated = 0
    /\ size \in BatchSizes
    /\ NoCalls(Range(REFRESH_SYMBOLS))

SpecLive == InitLive /\ [][NextLive]_vars

----------------------------------------------------------------------------
(* Properties of the build *)

Built == pc \in {"rows", "ranked", "projected", "published"}
Ranked == pc \in {"ranked", "projected", "published"}
Projected == pc \in {"projected", "published"}

Tickers(frame) == [i \in 1..Len(frame) |-> frame[i].Ticker]

\* the cleaned observations of t, written without the model's helpers
Cleaned(t) ==
    LET h == histories[t]
        keep == {i \in 1..Len(h) : h[i].close # NaN}
        nth(k) == CHOOSE i \in keep : Cardinality({j \in keep : j <= i}) = k
    IN  [k \in 1..Cardinality(keep) |-> h[nth(k)]]

\* last/base - 1 from two finite closes, base nonzero
Ratio(last, base) ==
    LET n == last.n * base.d - base.n * last.d
        d == base.n * last.d
        g == GCD(Abs(n), Abs(d))
        sg == IF d < 0 THEN -1 ELSE 1
    IN  [n |-> (sg * n) \div g, d |-> (sg * d) \div g]

RowOf(t) == df[CHOOSE i \in 1..Len(df) : df[i].Ticker = t]

TopValue(i) == df_top[i][rank_col]

\* C1: the leaderboard has at most TOP_N entries, every entry has a defined
\* value on the ranking horizon, every computed row whose value on that horizon
\* is undefined is absent, the values never increase down the table, and the
\* rank shown on the page is the entry's position.
C1_Leaderboard ==
    /\ Ranked =>
        /\ Len(df_top) <= TOP_N
        /\ \A i \in 1..Len(df_top) :
            /\ TopValue(i) # NaN
            /\ \E k \in 1..Len(df) : df[k] = df_top[i]
        /\ \A k \in 1..Len(df) :
            df[k][rank_col] = NaN => df[k].Ticker \notin Range(Tickers(df_top))
        /\ \A i, j \in 1..Len(df_top) :
            i < j => TopValue(i).n * TopValue(j).d >= TopValue(j).n * TopValue(i).d
    /\ pc = "published" =>
        /\ Len(topTable) = Len(df_top)
        /\ \A i \in 1..Len(df_top) : topTable[i].symbol = df_top[i].Ticker

\* C1 witness: more eligible rows than TOP_N, a row with an undefined value
\* left out, and two entries with different values, on the published page
C1_Witness ==
    /\ pc = "published"
    /\ Len(df_top) = TOP_N
    /\ TOP_N >= 2
    /\ Cardinality({k \in 1..Len(df) : df[k][rank_col] # NaN}) > TOP_N
    /\ \E k \in 1..Len(df) : df[k][rank_col] = NaN
    /\ TopValue(1) # TopValue(2)

\* the watchlist symbols that have a non-empty cleaned history, in list order
Resolvable == SelectSeq(MIKE_TICKERS, LAMBDA t : Len(Cleaned(t)) > 0)

\* C2: the watchlist rows are exactly the watchlist symbols with a non-empty
\* history, each once, in the order of the list, whatever the metric values;
\* a symbol without history has no row.
C2_Watchlist ==
    /\ Projected => Tickers(df_mike) = Resolvable
    /\ pc = "published" =>
        [i \in 1..Len(mikeTable) |-> mikeTable[i].symbol] = Resolvable

\* C2 witness: a symbol dropped, the rows in an order that is neither the
\* order of the computed rows nor descending by value
C2_Witness ==
    /\ pc = "published"
    /\ Len(df_mike) >= 2
    /\ Len(df_mike) < Len(MIKE_TICKERS)
    /\ Tickers(df_mike) # Tickers(SelectSeq(df, LAMBDA r : r.Ticker \in Range(MIKE_TICKERS)))
    /\ Lt(df_mike[1].YTD, df_mike[2].YTD)
    /\ Lt(df_mike[1].Month, df_mike[2].Month)
    /\ Lt(df_mike[1].Day, df_mike[2].Day)

\* the return a horizon with the given lookback must show for history c
LookbackReturn(c, lookback) ==
    IF Len(c) > lookback /\ c[Len(c) - lookback].close.n # 0
    THEN Ratio(c[Len(c)].close, c[Len(c) - lookback].close)
    ELSE NaN

\* C3: day (lookback 1) and month (lookback K): with more than lookback
\* observations the baseline is the one lookback positions before the last and
\* the return is last/baseline - 1 when it is nonzero; otherwise the return is
\* undefined; nothing faults; an undefined ranking value keeps the row out of
\* the leaderboard.
C3_Lookback ==
    /\ pc = "error" => \A t \in Range(all_symbols) : Len(Cleaned(t)) = 0
    /\ Built => \A k \in 1..Len(df) :
        LET r == df[k]
            c == Cleaned(r.Ticker)
            K == LOOKBACKS["month"]
        IN  /\ Len(c) > 1 => r.PrevClose = c[Len(c) - 1].close
            /\ Len(c) <= 1 => r.PrevClose = NaN
            /\ Len(c) > K => r.MonthBase = c[Len(c) - K].close
            /\ Len(c) <= K => r.MonthBase = NaN
            /\ r.Day = LookbackReturn(c, 1)
            /\ r.Month = LookbackReturn(c, K)
            /\ Ranked /\ RANK_HORIZON = "day" /\ LookbackReturn(c, 1) = NaN
                  => r.Ticker \notin Range(Tickers(df_top))
            /\ Ranked /\ RANK_HORIZON = "month" /\ LookbackReturn(c, K) = NaN
                  => r.Ticker \notin Range(Tickers(df_top))

\* C3 witness: the worked example, month lookback 3: baseline 100, +5.00%,
\* ranked first by month, beside a history no longer than the lookback, whose
\* month return is undefined and which is left out
C3_Witness ==
    /\ pc = "published"
    /\ LOOKBACKS["month"] = 3
    /\ RANK_HORIZON = "month"
    /\ histories["A"] = ExampleHistory
    /\ RowOf("A").MonthBase = Num(100)
    /\ RowOf("A").Month = [n |-> 1, d |-> 20]
    /\ topTable[1].symbol = "A"
    /\ topTable[1].m.txt = [sign |-> "+", mag |-> 500]
    /\ \E k \in 1..Len(df) :
        /\ Len(Cleaned(df[k].Ticker)) = 3
        /\ df[k].Month = NaN
        /\ df[k].Day # NaN
        /\ df[k].Ticker \notin Range(Tickers(df_top))

\* the first observation of the last observation's calendar year
YearStart(c) ==
    c[CHOOSE i \in 1..Len(c) :
        /\ c[i].year = c[Len(c)].year
        /\ \A j \in 1..(i - 1) : c[j].year # c[Len(c)].year]

\* C4: the year-to-date baseline is the earliest observation of the calendar
\* year of the last observation and the return is last/baseline - 1, undefined
\* only when that baseline is zero; a single observation (nonzero) gives
\* YTD = 0 with day and month undefined.
C4_YearToDate ==
    Built => \A k \in 1..Len(df) :
        LET r == df[k]
            c == Cleaned(r.Ticker)
        IN  /\ r.YtdBase = YearStart(c).close
            /\ r.YtdBase.n # 0 => r.YTD = Ratio(c[Len(c)].close, YearStart(c).close)
            /\ r.YtdBase.n = 0 => r.YTD = NaN
            /\ Len(c) = 1 /\ c[1].close.n # 0 =>
                  r.YTD = Num(0) /\ r.Day = NaN /\ r.Month = NaN

\* C4 witness: a single observation showing YTD +0.00% beside a history that
\* starts in the year before, whose baseline is not its first observation
C4_Witness ==
    /\ pc = "published"
    /\ \E k \in 1..Len(df) :
        /\ Len(Cleaned(df[k].Ticker)) = 1
        /\ df[k].YTD = Num(0) /\ df[k].Day = NaN /\ df[k].Month = NaN
    /\ \E k \in 1..Len(df) :
        LET c == Cleaned(df[k].Ticker)
        IN  /\ c[1].year # c[Len(c)].year
            /\ df[k].YtdBase # c[1].close
            /\ df[k].YTD = Num(1)
    /\ \E i \in 1..Len(mikeTable) : mikeTable[i].y.txt = [sign |-> "+", mag |-> 0]

\* C10 as claimed: the day delta in dollars and in percent are defined
\* together, and when defined dayAbs = last - prev and dayPct = dayAbs / prev.
C10_DayConsistent ==
    Built => \A k \in 1..Len(df) :
        LET r == df[k]
        IN  /\ (r.DayAbs = NaN) <=> (r.Day = NaN)
            /\ r.DayAbs # NaN =>
                /\ r.DayAbs.n * r.Price.d * r.PrevClose.d
                     = (r.Price.n * r.PrevClose.d - r.PrevClose.n * r.Price.d) * r.DayAbs.d
                /\ r.Day.n * r.DayAbs.d * r.PrevClose.n
                     = r.DayAbs.n * r.PrevClose.d * r.Day.d

----------------------------------------------------------------------------
(* Properties of the refresh loop *)

Tables == [top |-> topTable, mike |-> mikeTable]

AllRows == Range(topTable) \cup Range(mikeTable)

Displayed == Range(REFRESH_SYMBOLS)

\* the row of the page as main rendered it
BuiltRow(t) == render_row(html_row(RowOf(t)))

Settled(g) == idxPc[g] = "done" /\ tblPc[g] = "done"

\* the build-time marker of a return
BuiltMarker(x) == IF x = NaN \/ x.n >= 0 THEN "gain" ELSE "loss"

\* one horizon of C5: base the stored baseline, pct what the script computes
\* from it and the build-time last price, ret the return main computed
SameAsBuilt(base, pct, ret) ==
    (base # NaN /\ base # Num(0)) =>
        /\ pct # Null
        /\ pct.d # 0
        /\ ret.d # 0
        /\ pct.n * ret.d = 100 * ret.n * pct.d
        /\ (IF pct.n >= 0 THEN "gain" ELSE "loss") = BuiltMarker(ret)

\* C5: for every published row and every horizon whose stored baseline is
\* defined and nonzero, a quote whose price is the build-time last price makes
\* recomputeAndRender compute the percentage main computed (as a percent), with
\* the same gain/loss marker; a row last rendered from such a price shows that
\* month and year-to-date percentage.
C5_RecomputeMatchesBuild ==
    pc = "published" =>
        /\ \A r \in AllRows :
            LET d == RowOf(r.symbol)
                v == locals(r, Quote(d.Price, Null, Null, Null))
            IN  /\ SameAsBuilt(parseFloat(r.prev), v.dayPct, d.Day)
                /\ SameAsBuilt(parseFloat(r.mbase), v.mPct, d.Month)
                /\ SameAsBuilt(parseFloat(r.ybase), v.yPct, d.YTD)
        /\ \A t \in Displayed :
            LET r == FirstRow(Tables, t)
                d == RowOf(t)
            IN  (rendered[t] > 0 /\ r.p.txt = [sign |-> "", mag |-> 100 * d.Price.n]) =>
                    /\ d.Month # NaN /\ d.Month.n >= 0 => r.m.cls = "gain"
                    /\ d.Month # NaN /\ d.Month.n < 0 => r.m.cls = "loss"
                    /\ d.YTD # NaN /\ d.YTD.n >= 0 => r.y.cls = "gain"
                    /\ d.YTD # NaN /\ d.YTD.n < 0 => r.y.cls = "loss"
                    /\ d.YTD # NaN => r.y.txt.mag * d.YTD.d = 10000 * Abs(d.YTD.n)
                    /\ d.Month # NaN => r.m.txt.mag * d.Month.d = 10000 * Abs(d.Month.n)

\* C5 witness: a row rendered from a quote at its build-time last price,
\* showing the build-time -50.00% year-to-date as a loss and +0.00% for the month
C5_Witness ==
    /\ pc = "published"
    /\ \E t \in Displayed :
        LET r == FirstRow(Tables, t)
            d == RowOf(t)
        IN  /\ rendered[t] > 0
            /\ r.p.txt = [sign |-> "", mag |-> 100 * d.Price.n]
            /\ d.YTD = [n |-> -1, d |-> 2]
            /\ r.y = [txt |-> [sign |-> "-", mag |-> 5000], cls |-> "loss"]
            /\ r.m = [txt |-> [sign |-> "+", mag |-> 0], cls |-> "gain"]
            /\ r.dp = [txt |-> [sign |-> "-", mag |-> 5000], cls |-> "loss"]

\* what a refresh must leave alone in a table: the rows, their order, their
\* symbols and their three baselines
Skeleton(table) ==
    [i \in 1..Len(table) |->
        [symbol |-> table[i].symbol, prev |-> table[i].prev,
         mbase |-> table[i].mbase, ybase |-> table[i].ybase]]

\* C6: whatever refreshes have run, both tables hold the rows published at
\* build time, in the same order, with the same three baselines; and a step
\* changes the cells of a row only if a quote for its symbol was rendered in
\* that step.
C6_Frozen ==
    /\ [](pc = "published" =>
            /\ Skeleton(topTable) = Skeleton(render_table(rows_for_html(df_top)))
            /\ Skeleton(mikeTable) = Skeleton(render_table(rows_for_html(df_mike)))
            /\ REFRESH_SYMBOLS = refresh_symbols(df_top, df_mike))
    /\ [][/\ \A i \in 1..Len(topTable) :
                topTable'[i] # topTable[i] =>
                    rendered'[topTable[i].symbol] # rendered[topTable[i].symbol]
          /\ \A i \in 1..Len(mikeTable) :
                mikeTable'[i] # mikeTable[i] =>
                    rendered'[mikeTable[i].symbol] # rendered[mikeTable[i].symbol]
          /\ UNCHANGED <<df, df_top, df_mike, REFRESH_SYMBOLS>>]_vars

\* C6 witness: after served, failed and overtaken requests a row shows other
\* values than at build time, a second one was rendered from a quote carrying
\* a previous close its row lacks
C6_Witness ==
    /\ pc = "published"
    /\ ticks = MaxTicks
    /\ \A g \in Calls : Settled(g)
    /\ stale # {}
    /\ \E t \in Displayed : rendered[t] < newest[t]
    /\ \E t \in Displayed :
        /\ rendered[t] > 0
        /\ parseFloat(FirstRow(Tables, t).prev) = NaN
        /\ FirstRow(Tables, t).dp.txt = [sign |-> "+", mag |-> 10000]
        /\ FirstRow(Tables, t) # BuiltRow(t)

\* C7 as claimed: a failed batch leaves the tables alone, the loop goes on,
\* the timer keeps running, and the failure shows on the page.
C7_FailureSurfaced ==
    [][\A g \in Calls : TablesFail(g) =>
            /\ topTable' = topTable /\ mikeTable' = mikeTable
            /\ tblI'[g] = tblI[g] + size
            /\ <<banner, market_summary, last_updated>>'
                  # <<banner, market_summary, last_updated>>]_vars

\* C7 as amended: a failed batch leaves every row as it was, the loop goes
\* on to the next batch and the call settles as usual (stamping the update
\* time once both fetches are done), the timer keeps running and the next
\* call asks for every symbol again; nothing on the page tells of the failure.
C7_FailureSilent ==
    /\ [][\A g \in Calls : TablesFail(g) =>
            /\ topTable' = topTable /\ mikeTable' = mikeTable
            /\ banner' = banner
            /\ tblI'[g] = tblI[g] + size
            /\ tblI'[g] < nSymbols =>
                  /\ tblPc'[g] = "fetch"
                  /\ group_at(tblI[g])[1] # group_at(tblI[g])'[1]
                  /\ UNCHANGED <<market_summary, last_updated>>
            /\ tblI'[g] >= nSymbols =>
                  /\ tblPc'[g] = "done"
                  /\ idxPc[g] = "done" => market_summary' = g /\ last_updated' = g
                  /\ idxPc[g] # "done" => UNCHANGED <<market_summary, last_updated>>]_vars
    /\ [][doRefresh => tblI'[ticks'] = 0 /\ tblPc'[ticks'] = "fetch"]_vars
    /\ [](pc = "published" /\ ticks < MaxTicks => ENABLED doRefresh)

\* C7 witness: the first batch of the first call failed and its symbol still
\* shows the build-time row, the second batch of that call was rendered, the
\* call settled, and the next call is asking for the failed symbol again
C7_Witness ==
    /\ ticks = 2
    /\ size = 1
    /\ Settled(1)
    /\ last_updated = 1
    /\ tblPc[2] = "fetch"
    /\ tblI[2] = 0
    /\ LET t == REFRESH_SYMBOLS[1]
           u == REFRESH_SYMBOLS[2]
       IN  /\ t \in stale
           /\ rendered[t] = 0
           /\ FirstRow(Tables, t) = BuiltRow(t)
           /\ rendered[u] = 1
           /\ FirstRow(Tables, u) # BuiltRow(u)

\* C8: within a call, each of the two fetches can resolve or fail while the
\* other is still outstanding, whatever the other's state; and a step of one
\* fetch leaves alone the banner and position of the index fetch, or the
\* tables and position of the table fetch.
C8_Independent ==
    /\ [](\A g \in Calls :
            /\ tblPc[g] = "fetch" => ENABLED TablesResolve(g) /\ ENABLED TablesFail(g)
            /\ idxPc[g] = "fetch" => ENABLED IndicesResolve(g) /\ ENABLED IndicesFail(g))
    /\ [][ticks' = ticks =>
            \/ UNCHANGED <<banner, idxPc>>
            \/ UNCHANGED <<topTable, mikeTable, tblPc, tblI, arrived, rendered,
                           newest, stale>>]_vars

\* C8 witness: a call whose quotes are all rendered while its index fetch is
\* outstanding, beside a call whose index answer is on the banner while its
\* table fetch has not been answered
C8_Witness ==
    /\ ticks = 2
    /\ idxPc[1] = "fetch" /\ tblPc[1] = "done"
    /\ \A t \in Displayed : rendered[t] = 1 /\ FirstRow(Tables, t) # BuiltRow(t)
    /\ idxPc[2] = "done" /\ tblPc[2] = "fetch" /\ tblI[2] = 0
    /\ banner.status = "Market Open"
    /\ last_updated = 0

\* C9: every quote that resolves is rendered, whichever call it belongs to
\* and whatever was rendered before, and the timer can start a call while
\* earlier ones are outstanding.
C9_NoGenerationGuard ==
    /\ \A t \in DOMAIN rendered : rendered[t] = arrived[t]
    /\ (pc = "published" /\ ticks < MaxTicks) => ENABLED doRefresh

\* C9 witness: all calls have settled and a symbol shows the quote of an
\* older call than one rendered before it
C9_Witness ==
    /\ ticks >= 2
    /\ \A g \in Calls : Settled(g)
    /\ \E t \in Displayed :
        /\ rendered[t] = 1
        /\ newest[t] = 2
        /\ FirstRow(Tables, t).p.txt = [sign |-> "", mag |-> 100]
    /\ last_updated = 1

\* the day cells showing an absolute change and a percentage
AbsCell(x) == [txt |-> fmtAbs(x), cls |-> gain_loss(x)]
PctCell(x) == [txt |-> fmtPct(x), cls |-> gain_loss(x)]

Available(base) == base # NaN /\ base # Num(0)

\* the first row of symbol t after recomputeAndRender(t, q)
After(t, q) == FirstRow(recomputeAndRender(Tables, t, q), t)

\* C11 as claimed: a quote's day cells are recomputed from its price and the
\* row's stored previous close when that is defined and nonzero; the quote's
\* change fields are used only when the stored previous close is not
\* available; with neither, the day cells stay as they were.
C11_StoredOrChange ==
    pc = "published" =>
        \A t \in Displayed, q \in Quotes :
            LET r == FirstRow(Tables, t)
                out == After(t, q)
                stored == parseFloat(r.prev)
                price == orNaN(q.regularMarketPrice)
            IN  /\ (Available(stored) /\ price # NaN) =>
                      /\ out.da = AbsCell(Sub(price, stored))
                      /\ out.dp = PctCell(pctOf(price, stored))
                /\ (Available(stored) /\ price = NaN) =>
                      out.da = r.da /\ out.dp = r.dp
                /\ ~Available(stored) =>
                      /\ out.da = IF q.regularMarketChange # Null
                                  THEN AbsCell(q.regularMarketChange) ELSE r.da
                      /\ out.dp = IF q.regularMarketChangePercent # Null
                                  THEN PctCell(q.regularMarketChangePercent) ELSE r.dp

\* C11 as amended: the day baseline is the row's stored previous close, or,
\* when the row stores none, the previous close the quote carries; with a
\* defined nonzero baseline and a quoted price the day cells are recomputed
\* as price - baseline and price/baseline - 1; otherwise (no such baseline,
\* or no price in the quote) each day cell takes the quote's change field if
\* it has one and stays as it was if not.
C11_DayDelta ==
    pc = "published" =>
        \A t \in Displayed, q \in Quotes :
            LET r == FirstRow(Tables, t)
                out == After(t, q)
                stored == parseFloat(r.prev)
                price == orNaN(q.regularMarketPrice)
                base == IF stored = NaN /\ q.regularMarketPreviousClose # Null
                        THEN q.regularMarketPreviousClose ELSE stored
            IN  /\ Available(stored) => base = stored
                /\ (Available(base) /\ price # NaN) =>
                      /\ out.da = AbsCell(Sub(price, base))
                      /\ out.dp = PctCell(pctOf(price, base))
                /\ ~(Available(base) /\ price # NaN) =>
                      /\ out.da = IF q.regularMarketChange # Null
                                  THEN AbsCell(q.regularMarketChange) ELSE r.da
                      /\ out.dp = IF q.regularMarketChangePercent # Null
                                  THEN PctCell(q.regularMarketChangePercent) ELSE r.dp

\* C11 witness: a row with a stored previous close shows the day change of
\* the quoted price against it, a row without one shows the change against
\* the quote's previous close, and a quote without price and change fields
\* would leave both as they are
C11_Witness ==
    /\ pc = "published"
    /\ \E t, u \in Displayed :
        LET r == FirstRow(Tables, t)
            w == FirstRow(Tables, u)
        IN  /\ rendered[t] > 0 /\ rendered[u] > 0
            /\ parseFloat(r.prev) = Num(2)
            /\ r.p.txt = fmtPrice(Num(1))
            /\ r.da = AbsCell(Num(-1)) /\ r.dp = PctCell(Num(-50))
            /\ parseFloat(w.prev) = NaN
            /\ w.p.txt = fmtPrice(Num(2))
            /\ w.da = AbsCell(Num(1)) /\ w.dp = PctCell(Num(100))
            /\ After(u, Quote(Num(1), Null, Null, Null)).da = w.da
            /\ After(u, Quote(Null, Null, Num(-1), Num(-50))).dp = PctCell(Num(-50))

\* the symbols shown in both the leaderboard and the watchlist
InBoth == {t \in Displayed : InTable(topTable, t) /\ InTable(mikeTable, t)}

Cells(row) == [p |-> row.p, da |-> row.da, dp |-> row.dp, m |-> row.m, y |-> row.y]

\* C12: once a quote for a symbol has been rendered, its leaderboard row and
\* its watchlist row show the same price, day, month and year-to-date cells.
C12_RowsAgree ==
    pc = "published" =>
        \A t \in InBoth :
            rendered[t] > 0 =>
                Cells(topTable[RowIn(topTable, t)]) = Cells(mikeTable[RowIn(mikeTable, t)])

\* C13: a day-absolute cell marked as a loss (price below the previous
\* close) is shown with a minus sign, at build time and after every refresh.
C13_SignKept ==
    pc = "published" =>
        \A r \in AllRows :
            (r.da.txt # Dash /\ r.da.cls = "loss") => r.da.txt.sign = "-"

====
